---------------------------- MODULE Spec2Model ----------------------------
(***************************************************************************)
(* xr_hand: tracked hand joints reconciled with physics hand bodies.       *)
(*                                                                         *)
(* The module models src/src/constants.rs (joint pose table, bone topology *)
(* map, the two spawners, the reconciliation step update_physics_hands)    *)
(* and src/src/main.rs (the schedules the systems are registered in).      *)
(*                                                                         *)
(* Numbers.  Calibration positions are the source literals in units of     *)
(* 1e-9 m, radii in units of 1e-10 m, quaternion components are kept as    *)
(* the literal text.  Transforms of live entities are on a grid of         *)
(* GridUnit * 1e-9 m (0.5 mm).  A length is never rooted: it is carried as *)
(* its square, so that equality and the comparison with a threshold are    *)
(* exact.                                                                  *)
(***************************************************************************)
EXTENDS Integers, Sequences, FiniteSets, TLC

VARIABLES
    phase,          \* position of the app in its schedules
    pending,        \* systems of the current FixedUpdate run still to execute
    frameLog,       \* stages executed so far in the current frame, in order
    ticks,          \* FixedUpdate runs completed in the current frame
    hands_res,      \* the HandsResource: <<>> while absent, <<table>> once inserted
    tracked,        \* tracked joint entities: entity id -> [hand, bone, translation]
    bodies,         \* entities carrying PhysicsHandBone, in spawn order
    rapier_config,  \* RapierConfiguration::timestep_mode
    call,           \* pure-function harness: the call being made
    ret             \* pure-function harness: <<>> before the return, <<value>> after

worldVars == <<phase, pending, frameLog, ticks, hands_res, tracked, bodies, rapier_config>>
vars == <<phase, pending, frameLog, ticks, hands_res, tracked, bodies, rapier_config, call, ret>>

None == <<>>
Some(x) == <<x>>

-----------------------------------------------------------------------------
(* Enumerations                                                            *)

\* enum PhysicsHandBone, in declaration order
PhysicsHandBone ==
    << "Palm", "Wrist",
       "ThumbMetacarpal", "ThumbProximal", "ThumbDistal", "ThumbTip",
       "IndexMetacarpal", "IndexProximal", "IndexIntermediate", "IndexDistal", "IndexTip",
       "MiddleMetacarpal", "MiddleProximal", "MiddleIntermediate", "MiddleDistal", "MiddleTip",
       "RingMetacarpal", "RingProximal", "RingIntermediate", "RingDistal", "RingTip",
       "LittleMetacarpal", "LittleProximal", "LittleIntermediate", "LittleDistal", "LittleTip" >>

\* enum NameToHandJoint, in declaration order
NameToHandJoint ==
    << "Palm", "Wrist",
       "ThumbMetacarpal", "ThumbProximal", "ThumbDistal", "ThumbTip",
       "IndexMetacarpal", "IndexProximal", "IndexIntermediate", "IndexDistal", "IndexTip",
       "MiddleMetacarpal", "MiddleProximal", "MiddleIntermediate", "MiddleDistal", "MiddleTip",
       "RingMetacarpal", "RingProximal", "RingIntermediate", "RingDistal", "RingTip",
       "LittleMetacarpal", "LittleProximal", "LittleIntermediate", "LittleDistal", "LittleTip" >>

\* let hands = [Hand::Left, Hand::Right]
Hands == << "Left", "Right" >>

Bones == { PhysicsHandBone[i] : i \in DOMAIN PhysicsHandBone }
JointNames == { NameToHandJoint[i] : i \in DOMAIN NameToHandJoint }
HandSet == { Hands[i] : i \in DOMAIN Hands }

\* struct HandJoint; the four validity flags are `true` in every literal of the file
HandJoint(position, orientation, radius) ==
    [ position |-> position, position_valid |-> TRUE, position_tracked |-> TRUE,
      orientation |-> orientation, orientation_valid |-> TRUE, orientation_tracked |-> TRUE,
      radius |-> radius ]

-----------------------------------------------------------------------------
(* Joint Pose Table                                                        *)

get_default_right_hand ==
    << HandJoint(<<115789560, 1032229800, -79403060>>, <<"-0.16057923", "-0.5977889", "0.76988935", "-0.15534931">>, 172048360),
       HandJoint(<<110605344, 965450350, -69130330>>, <<"-0.16057923", "-0.5977889", "0.76988935", "-0.15534931">>, 225380710),
       HandJoint(<<138413980, 1002140600, -52384503>>, <<"-0.73630154", "-0.30601385", "0.56149095", "-0.22123282">>, 203554200),
       HandJoint(<<162023560, 1024998500, -43111823>>, <<"-0.6474834", "-0.40439665", "0.59034175", "-0.26215592">>, 128994930),
       HandJoint(<<181629390, 1053991400, -37236840>>, <<"-0.75916475", "-0.24931243", "0.58079475", "-0.15553255">>, 102591490),
       HandJoint(<<203144790, 1066816000, -30817013>>, <<"-0.75916475", "-0.24931243", "0.58079475", "-0.15553255">>, 92089530),
       HandJoint(<<129540250, 1003958600, -61990373>>, <<"-0.16057923", "-0.5977889", "0.76988935", "-0.15534931">>, 222938320),
       HandJoint(<<135758310, 1066265500, -75295100>>, <<"-0.17234212", "-0.60941154", "0.7517424", "-0.18384671">>, 108120290),
       HandJoint(<<137153880, 1105284500, -83174960>>, <<"-0.13962409", "-0.6614135", "0.71495426", "-0.17854437">>, 89666700),
       HandJoint(<<136221410, 1130696200, -85371900>>, <<"-0.11572188", "-0.6341916", "0.7430719", "-0.179595">>, 80194940),
       HandJoint(<<135073750, 1153629400, -90430770>>, <<"-0.11572188", "-0.6341916", "0.7430719", "-0.179595">>, 69692990),
       HandJoint(<<114313860, 1000820900, -69308540>>, <<"-0.16057923", "-0.5977889", "0.76988935", "-0.15534931">>, 222976990),
       HandJoint(<<117265260, 1063638700, -89497570>>, <<"-0.10877958", "-0.6516118", "0.7275088", "-0.18520312">>, 117348130),
       HandJoint(<<113519650, 1108197500, -95229180>>, <<"-0.09748417", "-0.65516704", "0.7271557", "-0.18027195">>, 84340710),
       HandJoint(<<110787160, 1136781700, -98773590>>, <<"-0.07898912", "-0.6207319", "0.7657275", "-0.14870927">>, 80123680),
       HandJoint(<<109201774, 1162057900, -105666840>>, <<"-0.07898912", "-0.6207319", "0.7657275", "-0.14870927">>, 69621730),
       HandJoint(<<95955200, 1001642800, -78983560>>, <<"-0.16057923", "-0.5977889", "0.76988935", "-0.15534931">>, 200464100),
       HandJoint(<<96868700, 1056594000, -92873190>>, <<"-0.061285853", "-0.6445517", "0.7438205", "-0.16591744">>, 104201780),
       HandJoint(<<91843160, 1096695700, -99491060>>, <<"-0.035476506", "-0.65508807", "0.74103206", "-0.14308292">>, 79937390),
       HandJoint(<<88078886, 1124073600, -103375815>>, <<"-0.05044055", "-0.6750347", "0.7261634", "-0.12029514">>, 75940522),
       HandJoint(<<85949760, 1149299600, -107209820>>, <<"-0.05044055", "-0.6750347", "0.7261634", "-0.12029514">>, 65438570),
       HandJoint(<<86799720, 1001377800, -79339650>>, <<"0.079209626", "-0.6042261", "0.78903735", "-0.07782571">>, 189962140),
       HandJoint(<<76300375, 1046500800, -91672905>>, <<"0.0013647676", "-0.611447", "0.7800056", "-0.13312519">>, 89091740),
       HandJoint(<<70979420, 1077263100, -99811480>>, <<"0.06511599", "-0.6392353", "0.7561073", "-0.12425861">>, 71037220),
       HandJoint(<<65490335, 1097537600, -103528954>>, <<"0.029709637", "-0.6588042", "0.746072", "-0.09203919">>, 67485360),
       HandJoint(<<62057115, 1119942500, -107768800>>, <<"0.029709637", "-0.6588042", "0.746072", "-0.09203919">>, 56983410) >>

get_default_left_hand ==
    << HandJoint(<<-91996850, 1040411500, -138631360>>, <<"-0.06417896", "-0.61519694", "0.7855916", "-0.016115963">>, 172048360),
       HandJoint(<<-93779340, 973401300, -127050120>>, <<"-0.06417896", "-0.61519694", "0.7855916", "-0.016115963">>, 225380710),
       HandJoint(<<-125510220, 1011747200, -126378920>>, <<"0.60534817", "-0.3809054", "0.6843805", "0.14173296">>, 203554200),
       HandJoint(<<-150115150, 1035408500, -125591170>>, <<"0.515786", "-0.46232754", "0.70620716", "0.14659452">>, 128994930),
       HandJoint(<<-171158690, 1063949700, -127026240>>, <<"0.62170273", "-0.29466128", "0.7214654", "0.078412086">>, 102591490),
       HandJoint(<<-193498390, 1076748100, -129420760>>, <<"0.62170273", "-0.29466128", "0.7214654", "0.078412086">>, 92089530),
       HandJoint(<<-113074930, 1012743400, -130564000>>, <<"-0.06417896", "-0.61519694", "0.7855916", "-0.016115963">>, 222938320),
       HandJoint(<<-110930070, 1074246500, -146297540>>, <<"-0.0071815774", "-0.7033858", "0.7104458", "-0.021536648">>, 108120290),
       HandJoint(<<-111730400, 1114067400, -146711540>>, <<"-0.027792111", "-0.7521504", "0.6573756", "-0.036809683">>, 89666700),
       HandJoint(<<-112211080, 1139359600, -143316800>>, <<"-0.057377614", "-0.7506119", "0.6576552", "-0.02791658">>, 80194940),
       HandJoint(<<-110982716, 1162745100, -141206230>>, <<"-0.057377614", "-0.7506119", "0.6576552", "-0.02791658">>, 69692990),
       HandJoint(<<-96276210, 1009377500, -128982070>>, <<"-0.06417896", "-0.61519694", "0.7855916", "-0.016115963">>, 222976990),
       HandJoint(<<-87717480, 1071445500, -148280650>>, <<"-0.13512488", "-0.70895374", "0.6920408", "0.014331311">>, 117348130),
       HandJoint(<<-78370050, 1115507200, -146398570>>, <<"-0.14643663", "-0.7356529", "0.6613316", "0.0034517646">>, 84340710),
       HandJoint(<<-72619304, 1143629900, -142774570>>, <<"-0.17750135", "-0.71161807", "0.67951804", "-0.018677175">>, 80123680),
       HandJoint(<<-66356090, 1169102000, -141847270>>, <<"-0.17750135", "-0.71161807", "0.67951804", "-0.018677175">>, 69621730),
       HandJoint(<<-75872704, 1009465300, -127632830>>, <<"-0.06417896", "-0.61519694", "0.7855916", "-0.016115963">>, 200464100),
       HandJoint(<<-68767615, 1064306700, -140096320>>, <<"-0.2054858", "-0.687606", "0.6962721", "0.013380319">>, 104201780),
       HandJoint(<<-56295270, 1103295300, -138865580>>, <<"-0.23049791", "-0.71999407", "0.6541984", "-0.02244778">>, 79937390),
       HandJoint(<<-48781022, 1129873900, -134873690>>, <<"-0.21470001", "-0.7524259", "0.6196937", "-0.06114711">>, 75940522),
       HandJoint(<<-43416284, 1154537700, -130572440>>, <<"-0.21470001", "-0.7524259", "0.6196937", "-0.06114711">>, 65438570),
       HandJoint(<<-67970770, 1009167300, -122997060>>, <<"-0.29945284", "-0.59889627", "0.7368763", "-0.09308344">>, 189962140),
       HandJoint(<<-52160684, 1054155600, -127950000>>, <<"-0.31879357", "-0.67544085", "0.6648357", "0.012003437">>, 89091740),
       HandJoint(<<-37961796, 1082884100, -124217260>>, <<"-0.37481803", "-0.7022579", "0.6051459", "-0.011998042">>, 71037220),
       HandJoint(<<-28644710, 1101205800, -118515310>>, <<"-0.34324473", "-0.7252302", "0.59369886", "-0.06120594">>, 67485360),
       HandJoint(<<-20772540, 1122184900, -113069690>>, <<"-0.34324473", "-0.7252302", "0.59369886", "-0.06120594">>, 56983410) >>

get_right_hand_joint_data(self) ==
    CASE self = "Palm" -> HandJoint(<<115789560, 1032229800, -79403060>>, <<"-0.16057923", "-0.5977889", "0.76988935", "-0.15534931">>, 172048360)
      [] self = "Wrist" -> HandJoint(<<110605344, 965450350, -69130330>>, <<"-0.16057923", "-0.5977889", "0.76988935", "-0.15534931">>, 225380710)
      [] self = "ThumbMetacarpal" -> HandJoint(<<138413980, 1002140600, -52384503>>, <<"-0.73630154", "-0.30601385", "0.56149095", "-0.22123282">>, 203554200)
      [] self = "ThumbProximal" -> HandJoint(<<162023560, 1024998500, -43111823>>, <<"-0.6474834", "-0.40439665", "0.59034175", "-0.26215592">>, 128994930)
      [] self = "ThumbDistal" -> HandJoint(<<181629390, 1053991400, -37236840>>, <<"-0.75916475", "-0.24931243", "0.58079475", "-0.15553255">>, 102591490)
      [] self = "ThumbTip" -> HandJoint(<<203144790, 1066816000, -30817013>>, <<"-0.75916475", "-0.24931243", "0.58079475", "-0.15553255">>, 92089530)
      [] self = "IndexMetacarpal" -> HandJoint(<<129540250, 1003958600, -61990373>>, <<"-0.16057923", "-0.5977889", "0.76988935", "-0.15534931">>, 222938320)
      [] self = "IndexProximal" -> HandJoint(<<135758310, 1066265500, -75295100>>, <<"-0.17234212", "-0.60941154", "0.7517424", "-0.18384671">>, 108120290)
      [] self = "IndexIntermediate" -> HandJoint(<<137153880, 1105284500, -83174960>>, <<"-0.13962409", "-0.6614135", "0.71495426", "-0.17854437">>, 89666700)
      [] self = "IndexDistal" -> HandJoint(<<136221410, 1130696200, -85371900>>, <<"-0.11572188", "-0.6341916", "0.7430719", "-0.179595">>, 80194940)
      [] self = "IndexTip" -> HandJoint(<<135073750, 1153629400, -90430770>>, <<"-0.11572188", "-0.6341916", "0.7430719", "-0.179595">>, 69692990)
      [] self = "MiddleMetacarpal" -> HandJoint(<<114313860, 1000820900, -69308540>>, <<"-0.16057923", "-0.5977889", "0.76988935", "-0.15534931">>, 222976990)
      [] self = "MiddleProximal" -> HandJoint(<<117265260, 1063638700, -89497570>>, <<"-0.10877958", "-0.6516118", "0.7275088", "-0.18520312">>, 117348130)
      [] self = "MiddleIntermediate" -> HandJoint(<<113519650, 1108197500, -95229180>>, <<"-0.09748417", "-0.65516704", "0.7271557", "-0.18027195">>, 84340710)
      [] self = "MiddleDistal" -> HandJoint(<<110787160, 1136781700, -98773590>>, <<"-0.07898912", "-0.6207319", "0.7657275", "-0.14870927">>, 80123680)
      [] self = "MiddleTip" -> HandJoint(<<109201774, 1162057900, -105666840>>, <<"-0.07898912", "-0.6207319", "0.7657275", "-0.14870927">>, 69621730)
      [] self = "RingMetacarpal" -> HandJoint(<<95955200, 1001642800, -78983560>>, <<"-0.16057923", "-0.5977889", "0.76988935", "-0.15534931">>, 200464100)
      [] self = "RingProximal" -> HandJoint(<<96868700, 1056594000, -92873190>>, <<"-0.061285853", "-0.6445517", "0.7438205", "-0.16591744">>, 104201780)
      [] self = "RingIntermediate" -> HandJoint(<<91843160, 1096695700, -99491060>>, <<"-0.035476506", "-0.65508807", "0.74103206", "-0.14308292">>, 79937390)
      [] self = "RingDistal" -> HandJoint(<<88078886, 1124073600, -103375815>>, <<"-0.05044055", "-0.6750347", "0.7261634", "-0.12029514">>, 75940522)
      [] self = "RingTip" -> HandJoint(<<85949760, 1149299600, -107209820>>, <<"-0.05044055", "-0.6750347", "0.7261634", "-0.12029514">>, 65438570)
      [] self = "LittleMetacarpal" -> HandJoint(<<86799720, 1001377800, -79339650>>, <<"0.079209626", "-0.6042261", "0.78903735", "-0.07782571">>, 189962140)
      [] self = "LittleProximal" -> HandJoint(<<76300375, 1046500800, -91672905>>, <<"0.0013647676", "-0.611447", "0.7800056", "-0.13312519">>, 89091740)
      [] self = "LittleIntermediate" -> HandJoint(<<70979420, 1077263100, -99811480>>, <<"0.06511599", "-0.6392353", "0.7561073", "-0.12425861">>, 71037220)
      [] self = "LittleDistal" -> HandJoint(<<65490335, 1097537600, -103528954>>, <<"0.029709637", "-0.6588042", "0.746072", "-0.09203919">>, 67485360)
      [] self = "LittleTip" -> HandJoint(<<62057115, 1119942500, -107768800>>, <<"0.029709637", "-0.6588042", "0.746072", "-0.09203919">>, 56983410)

\* the index each arm of get_left_hand_joint_data reads from hand_joints.inner
LeftHandInnerIndex(self) ==
    CASE self = "Palm" -> 0
      [] self = "Wrist" -> 1
      [] self = "ThumbMetacarpal" -> 2
      [] self = "ThumbProximal" -> 3
      [] self = "ThumbDistal" -> 4
      [] self = "ThumbTip" -> 5
      [] self = "IndexMetacarpal" -> 6
      [] self = "IndexProximal" -> 7
      [] self = "IndexIntermediate" -> 8
      [] self = "IndexDistal" -> 9
      [] self = "IndexTip" -> 10
      [] self = "MiddleMetacarpal" -> 11
      [] self = "MiddleProximal" -> 12
      [] self = "MiddleIntermediate" -> 13
      [] self = "MiddleDistal" -> 14
      [] self = "MiddleTip" -> 15
      [] self = "RingMetacarpal" -> 16
      [] self = "RingProximal" -> 17
      [] self = "RingIntermediate" -> 18
      [] self = "RingDistal" -> 19
      [] self = "RingTip" -> 20
      [] self = "LittleMetacarpal" -> 21
      [] self = "LittleProximal" -> 22
      [] self = "LittleIntermediate" -> 23
      [] self = "LittleDistal" -> 24
      [] self = "LittleTip" -> 25

\* hand_joints.inner[i]: Rust arrays are 0-based, TLA+ sequences 1-based
Inner(hand_joints, i) == hand_joints[i + 1]

\* the left-hand lookup reading the right hand's data
get_left_hand_joint_data_RightData(self) == get_right_hand_joint_data(self)

get_left_hand_joint_data(self) == Inner(get_default_left_hand, LeftHandInnerIndex(self))

get_joint_data(self, hand) ==
    IF hand = "Left" THEN get_left_hand_joint_data(self)
    ELSE get_right_hand_joint_data(self)

-----------------------------------------------------------------------------
(* Bone Topology Map                                                       *)

\* the value every index outside 0..25 produces: panic!("Index out of bounds")
Panic == "panic"

get_physics_bone_from_index_ShiftedTips(index) ==
    CASE index = 0 -> "Palm"
      [] index = 1 -> "Wrist"
      [] index \in 2..24 -> PhysicsHandBone[index + 2]
      [] OTHER -> Panic

get_physics_bone_from_index_Wraps(index) ==
    CASE index = 0 -> "Palm"
      [] index \in 1..25 -> PhysicsHandBone[index + 1]
      [] OTHER -> "LittleTip"

get_physics_bone_from_index(index) ==
    CASE index = 0 -> "Palm"
      [] index = 1 -> "Wrist"
      [] index = 2 -> "ThumbMetacarpal"
      [] index = 3 -> "ThumbProximal"
      [] index = 4 -> "ThumbDistal"
      [] index = 5 -> "ThumbTip"
      [] index = 6 -> "IndexMetacarpal"
      [] index = 7 -> "IndexProximal"
      [] index = 8 -> "IndexIntermediate"
      [] index = 9 -> "IndexDistal"
      [] index = 10 -> "IndexTip"
      [] index = 11 -> "MiddleMetacarpal"
      [] index = 12 -> "MiddleProximal"
      [] index = 13 -> "MiddleIntermediate"
      [] index = 14 -> "MiddleDistal"
      [] index = 15 -> "MiddleTip"
      [] index = 16 -> "RingMetacarpal"
      [] index = 17 -> "RingProximal"
      [] index = 18 -> "RingIntermediate"
      [] index = 19 -> "RingDistal"
      [] index = 20 -> "RingTip"
      [] index = 21 -> "LittleMetacarpal"
      [] index = 22 -> "LittleProximal"
      [] index = 23 -> "LittleIntermediate"
      [] index = 24 -> "LittleDistal"
      [] index = 25 -> "LittleTip"
      [] OTHER -> Panic

\* the two NameToHandJoint variants each arm of get_start_and_end_joints reads
StartAndEndNames(bone) ==
    CASE bone = "Palm" -> None
      [] bone = "Wrist" -> None
      [] bone = "ThumbMetacarpal" -> Some(<<"ThumbMetacarpal", "ThumbProximal">>)
      [] bone = "ThumbProximal" -> Some(<<"ThumbProximal", "ThumbDistal">>)
      [] bone = "ThumbDistal" -> Some(<<"ThumbDistal", "ThumbTip">>)
      [] bone = "ThumbTip" -> None
      [] bone = "IndexMetacarpal" -> Some(<<"IndexMetacarpal", "IndexProximal">>)
      [] bone = "IndexProximal" -> Some(<<"IndexProximal", "IndexIntermediate">>)
      [] bone = "IndexIntermediate" -> Some(<<"IndexIntermediate", "IndexDistal">>)
      [] bone = "IndexDistal" -> Some(<<"IndexDistal", "IndexTip">>)
      [] bone = "IndexTip" -> None
      [] bone = "MiddleMetacarpal" -> Some(<<"MiddleMetacarpal", "MiddleProximal">>)
      [] bone = "MiddleProximal" -> Some(<<"MiddleProximal", "MiddleIntermediate">>)
      [] bone = "MiddleIntermediate" -> Some(<<"MiddleIntermediate", "MiddleDistal">>)
      [] bone = "MiddleDistal" -> Some(<<"MiddleDistal", "MiddleTip">>)
      [] bone = "MiddleTip" -> None
      [] bone = "RingMetacarpal" -> Some(<<"RingMetacarpal", "RingProximal">>)
      [] bone = "RingProximal" -> Some(<<"RingProximal", "RingIntermediate">>)
      [] bone = "RingIntermediate" -> Some(<<"RingIntermediate", "RingDistal">>)
      [] bone = "RingDistal" -> Some(<<"RingDistal", "RingTip">>)
      [] bone = "RingTip" -> None
      [] bone = "LittleMetacarpal" -> Some(<<"LittleMetacarpal", "LittleProximal">>)
      [] bone = "LittleProximal" -> Some(<<"LittleProximal", "LittleIntermediate">>)
      [] bone = "LittleIntermediate" -> Some(<<"LittleIntermediate", "LittleDistal">>)
      [] bone = "LittleDistal" -> Some(<<"LittleDistal", "LittleTip">>)
      [] bone = "LittleTip" -> None

get_start_and_end_joints_TipSpans(bone, hand) ==
    IF bone = "ThumbTip"
    THEN Some(<<get_joint_data("ThumbTip", hand), get_joint_data("IndexMetacarpal", hand)>>)
    ELSE IF StartAndEndNames(bone) = None THEN None
    ELSE Some(<<get_joint_data(StartAndEndNames(bone)[1][1], hand),
                get_joint_data(StartAndEndNames(bone)[1][2], hand)>>)

get_start_and_end_joints_ParentChild(bone, hand) ==
    IF StartAndEndNames(bone) = None THEN None
    ELSE IF bone = "IndexProximal"
    THEN Some(<<get_joint_data("IndexMetacarpal", hand), get_joint_data("IndexProximal", hand)>>)
    ELSE Some(<<get_joint_data(StartAndEndNames(bone)[1][1], hand),
                get_joint_data(StartAndEndNames(bone)[1][2], hand)>>)

get_start_and_end_joints(bone, hand) ==
    IF StartAndEndNames(bone) = None THEN None
    ELSE Some(<<get_joint_data(StartAndEndNames(bone)[1][1], hand),
                get_joint_data(StartAndEndNames(bone)[1][2], hand)>>)

\* get_start_and_end_entities with a span for the Wrist
get_start_and_end_entities_WristSpans(hand_res, bone) ==
    IF bone = "Wrist" THEN Some(<<hand_res["ThumbMetacarpal"], hand_res["ThumbProximal"]>>)
    ELSE IF StartAndEndNames(bone) = None THEN None
    ELSE Some(<<hand_res[StartAndEndNames(bone)[1][1]], hand_res[StartAndEndNames(bone)[1][2]]>>)

\* get_start_and_end_entities with the two slots of each arm read in the other order
get_start_and_end_entities_EndFirst(hand_res, bone) ==
    IF StartAndEndNames(bone) = None THEN None
    ELSE Some(<<hand_res[StartAndEndNames(bone)[1][2]], hand_res[StartAndEndNames(bone)[1][1]]>>)

\* get_start_and_end_entities: the two HandResource slots each arm reads
\* (hand_res.thumb.metacarpal is the slot spawn_hand_entities fills for
\* HandBone::ThumbMetacarpal, and so on: slots are named by their bone)
get_start_and_end_entities(hand_res, bone) ==
    CASE bone = "Palm" -> None
      [] bone = "Wrist" -> None
      [] bone = "ThumbMetacarpal" -> Some(<<hand_res["ThumbMetacarpal"], hand_res["ThumbProximal"]>>)
      [] bone = "ThumbProximal" -> Some(<<hand_res["ThumbProximal"], hand_res["ThumbDistal"]>>)
      [] bone = "ThumbDistal" -> Some(<<hand_res["ThumbDistal"], hand_res["ThumbTip"]>>)
      [] bone = "ThumbTip" -> None
      [] bone = "IndexMetacarpal" -> Some(<<hand_res["IndexMetacarpal"], hand_res["IndexProximal"]>>)
      [] bone = "IndexProximal" -> Some(<<hand_res["IndexProximal"], hand_res["IndexIntermediate"]>>)
      [] bone = "IndexIntermediate" -> Some(<<hand_res["IndexIntermediate"], hand_res["IndexDistal"]>>)
      [] bone = "IndexDistal" -> Some(<<hand_res["IndexDistal"], hand_res["IndexTip"]>>)
      [] bone = "IndexTip" -> None
      [] bone = "MiddleMetacarpal" -> Some(<<hand_res["MiddleMetacarpal"], hand_res["MiddleProximal"]>>)
      [] bone = "MiddleProximal" -> Some(<<hand_res["MiddleProximal"], hand_res["MiddleIntermediate"]>>)
      [] bone = "MiddleIntermediate" -> Some(<<hand_res["MiddleIntermediate"], hand_res["MiddleDistal"]>>)
      [] bone = "MiddleDistal" -> Some(<<hand_res["MiddleDistal"], hand_res["MiddleTip"]>>)
      [] bone = "MiddleTip" -> None
      [] bone = "RingMetacarpal" -> Some(<<hand_res["RingMetacarpal"], hand_res["RingProximal"]>>)
      [] bone = "RingProximal" -> Some(<<hand_res["RingProximal"], hand_res["RingIntermediate"]>>)
      [] bone = "RingIntermediate" -> Some(<<hand_res["RingIntermediate"], hand_res["RingDistal"]>>)
      [] bone = "RingDistal" -> Some(<<hand_res["RingDistal"], hand_res["RingTip"]>>)
      [] bone = "RingTip" -> None
      [] bone = "LittleMetacarpal" -> Some(<<hand_res["LittleMetacarpal"], hand_res["LittleProximal"]>>)
      [] bone = "LittleProximal" -> Some(<<hand_res["LittleProximal"], hand_res["LittleIntermediate"]>>)
      [] bone = "LittleIntermediate" -> Some(<<hand_res["LittleIntermediate"], hand_res["LittleDistal"]>>)
      [] bone = "LittleDistal" -> Some(<<hand_res["LittleDistal"], hand_res["LittleTip"]>>)
      [] bone = "LittleTip" -> None

-----------------------------------------------------------------------------
(* Vectors and units                                                       *)

\* pub const FIXED_TIMESTEP: f32 = 1.0 / 60.0, as the denominator of 1/60 s
FIXED_TIMESTEP_INV == 60

\* the degenerate-length threshold 0.001 m of update_physics_hands, in 1e-9 m
MIN_LENGTH == 1000000

\* let radius = 0.010 of update_physics_hands, in 1e-10 m
RADIUS == 100000000

\* the capsule half-length 0.0575 m of spawn_physics_hands, in 1e-9 m
SPAWN_HALF_LENGTH == 57500000

\* live transforms sit on a grid of half the threshold, so that a nonzero
\* length below the threshold exists
GridUnit == MIN_LENGTH \div 2

Vec3(x, y, z) == <<x, y, z>>
ZERO == Vec3(0, 0, 0)
NEG_Z == Vec3(0, 0, -1)
VSub(a, b) == Vec3(a[1] - b[1], a[2] - b[2], a[3] - b[3])
VScale(a, k) == Vec3(a[1] * k, a[2] * k, a[3] * k)
VCross(a, b) ==
    Vec3(a[2] * b[3] - a[3] * b[2], a[3] * b[1] - a[1] * b[3], a[1] * b[2] - a[2] * b[1])
LengthSquared(a) == a[1] * a[1] + a[2] * a[2] + a[3] * a[3]

\* a Vec3 of 1e-9 m components on the grid
ToGrid(v) == Vec3(v[1] \div GridUnit, v[2] \div GridUnit, v[3] \div GridUnit)

\* direction.length() < 0.001
IsDegenerate_ZeroOnly(direction) == LengthSquared(direction) = 0

IsDegenerate(direction) ==
    LengthSquared(direction) < (MIN_LENGTH \div GridUnit) * (MIN_LENGTH \div GridUnit)

\* Collider::capsule(a, b, radius): the segment from a to a + axis * sqrt(lenSq),
\* radius as the fraction <<numerator, denominator>> of 1e-10 m
Capsule(a, axis, lenSq, radius) == [a |-> a, axis |-> axis, lenSq |-> lenSq, radius |-> radius]

\* Velocity::default() and a computed angular velocity num / sqrt(denSq)
AngVel(num, denSq) == IF num = ZERO THEN [num |-> ZERO, denSq |-> 1] ELSE [num |-> num, denSq |-> denSq]
ZeroAngVel == AngVel(ZERO, 1)

\* Quat::IDENTITY, and Transform::forward() = rotation * -Z for it
IDENTITY == <<"0", "0", "0", "1">>
\* the half turn about Y, the quaternion (0, 1, 0, 0): its forward is +Z
HALF_TURN_Y == <<"0", "1", "0", "0">>
Forward(rotation) ==
    CASE rotation = IDENTITY -> NEG_Z
      [] rotation = HALF_TURN_Y -> Vec3(0, 0, 1)

-----------------------------------------------------------------------------
(* Bounds and input domains                                               *)

\* bodies matching bone_query that exist besides the ones spawn_physics_hands makes
MaxJointBodies == 2
\* FixedUpdate runs per frame, where the frame's stages are logged
MaxTicksPerFrame == 2
\* the pure-function harness calls get_physics_bone_from_index with 0..MaxIndex
MaxIndex == 27

\* the (hand, bone) tags and the rotation of those bodies: on the right hand a
\* bone without a span, the three thumb bones with one (the last ends in a
\* Tip), a left hand bone with a span, and a right hand bone that faces +Z
JointBodyKinds ==
    { <<"Right", "Wrist", IDENTITY>>, <<"Right", "ThumbMetacarpal", IDENTITY>>,
      <<"Right", "ThumbProximal", IDENTITY>>, <<"Right", "ThumbDistal", IDENTITY>>,
      <<"Left", "ThumbMetacarpal", IDENTITY>>, <<"Right", "ThumbMetacarpal", HALF_TURN_Y>> }

\* the hand poses the XR input layer reports
XrPoses == { "Calibration", "Straight", "BaseCollapsed", "MidCollapsed", "Collapsed" }

(* Startup systems                                                         *)

\* HandBone::get_all_bones() and HandBone::get_index_from_bone
get_all_bones == PhysicsHandBone
get_index_from_bone(bone) == (CHOOSE i \in DOMAIN get_all_bones : get_all_bones[i] = bone) - 1

\* Entity::PLACEHOLDER, the value of every slot of HandsResource::default()
PLACEHOLDER == 0

\* the (hand, bone) pairs of the two nested loops of spawn_hand_entities, in loop order
HandBonePairs ==
    [ k \in 1..(Len(Hands) * Len(get_all_bones)) |->
        << Hands[((k - 1) \div Len(get_all_bones)) + 1],
           get_all_bones[((k - 1) % Len(get_all_bones)) + 1] >> ]

\* joints_opt of one iteration
JointsOpt(pair) ==
    get_start_and_end_joints(get_physics_bone_from_index(get_index_from_bone(pair[2])), pair[1])

\* the iterations that reach commands.spawn: `continue` when joints_opt.is_none()
SpawnsEntity(pair) == JointsOpt(pair) # None

SpawnedPairs == SelectSeq(HandBonePairs, SpawnsEntity)

\* the components of the entity spawned for a pair
TrackedEntity(pair) ==
    LET joint_one == JointsOpt(pair)[1][1]
        joint_two == JointsOpt(pair)[1][2]
        direction == VSub(joint_two.position, joint_one.position)
    IN  [ hand |-> pair[1], bone |-> pair[2],
          translation |-> ToGrid(direction),
          rotation |-> joint_one.orientation ]

\* entity ids are the positions in spawn order; boneid of the k-th spawn is k
SpawnedEntities == [ k \in DOMAIN SpawnedPairs |-> TrackedEntity(SpawnedPairs[k]) ]

\* hand_resource after the loops: a slot holds the boneid written last, else the default
HandResourceOf(hand) ==
    [ bone \in Bones |->
        IF \E k \in DOMAIN SpawnedPairs : SpawnedPairs[k] = <<hand, bone>>
        THEN CHOOSE k \in DOMAIN SpawnedPairs :
                /\ SpawnedPairs[k] = <<hand, bone>>
                /\ \A j \in DOMAIN SpawnedPairs : SpawnedPairs[j] = <<hand, bone>> => j <= k
        ELSE PLACEHOLDER ]

HandsResource == [ left |-> HandResourceOf("Left"), right |-> HandResourceOf("Right") ]

\* Group::GROUP_n as n, Group::ALL as all 32 groups
GROUP_ALL == 1..32
\* both hands in one membership group
hand_membership_OneGroup(hand) == 1
hand_membership(hand) == IF hand = "Left" THEN 1 ELSE 2
floor_membership == 3
\* the filter with the floor group left in
hand_filter_KeepsFloor(hand) == GROUP_ALL \ {hand_membership(hand)}
\* the filter with the other hand's group removed, not the hand's own
hand_filter_OtherHand(hand) ==
    (GROUP_ALL \ {hand_membership(IF hand = "Left" THEN "Right" ELSE "Left")}) \ {floor_membership}
hand_filter(hand) == (GROUP_ALL \ {hand_membership(hand)}) \ {floor_membership}

\* CollisionGroups::default(): member of every group, filter of every group
CollisionGroupsDefault == [membership |-> GROUP_ALL, filter |-> GROUP_ALL]

\* the engine's pair rule: two colliders interact iff each one's membership
\* intersects the other's filter
Interact(a, b) ==
    /\ \E g \in a.membership : g \in b.filter
    /\ \E g \in b.membership : g \in a.filter

\* the joint's place in its finger: 0 for a Metacarpal, counting toward the Tip
FingerDepth(bone) ==
    LET i == get_index_from_bone(bone)
    IN  IF i < 2 THEN 0 ELSE IF i < 6 THEN i - 2 ELSE (i - 6) % 5

\* the translation (grid units) a pose gives a tracked joint: "Straight" lines
\* the joints of a finger up along -Z, 0.02 m apart; "BaseCollapsed" and
\* "MidCollapsed" bring the first, or the second, pair of joints to half the
\* threshold apart; "Collapsed" reports every joint at the origin; "Calibration"
\* is the transform the entity was spawned with
PoseTranslation(pose, k) ==
    LET d == FingerDepth(SpawnedEntities[k].bone)
    IN  CASE pose = "Calibration" -> SpawnedEntities[k].translation
          [] pose = "Collapsed" -> ZERO
          [] pose = "Straight" -> Vec3(0, 0, -40 * d)
          [] pose = "BaseCollapsed" -> Vec3(0, 0, IF d = 0 THEN 0 ELSE -1 - 40 * (d - 1))
          [] pose = "MidCollapsed" -> Vec3(0, 0, IF d < 2 THEN -40 * d ELSE -41 - 40 * (d - 2))

\* the bundle tagged with the bone named as its calibration joint and carrying
\* BoneInitState::False
PhysicsHandBody_Reconciled(hand, joint) ==
    [ by |-> "spawn_physics_hands",
      hand |-> hand,
      bone |-> CHOOSE name \in JointNames : get_joint_data(name, hand) = joint,
      init |-> "False",
      rigid_body |-> "Fixed",
      translation |-> ToGrid(joint.position),
      rotation |-> joint.orientation,
      collider |-> Capsule(ToGrid(Vec3(0, -SPAWN_HALF_LENGTH, 0)), Vec3(0, 1, 0),
                           LengthSquared(ToGrid(Vec3(0, 2 * SPAWN_HALF_LENGTH, 0))),
                           <<joint.radius, 2>>),
      linvel |-> ZERO,
      angvel |-> ZeroAngVel,
      membership |-> {hand_membership(hand)},
      filter |-> hand_filter(hand) ]

\* the bundle tagged with the bone named as its calibration joint
PhysicsHandBody_TaggedByJoint(hand, joint) ==
    [ by |-> "spawn_physics_hands",
      hand |-> hand,
      bone |-> CHOOSE name \in JointNames : get_joint_data(name, hand) = joint,
      init |-> "Absent",
      rigid_body |-> "Fixed",
      translation |-> ToGrid(joint.position),
      rotation |-> joint.orientation,
      collider |-> Capsule(ToGrid(Vec3(0, -SPAWN_HALF_LENGTH, 0)), Vec3(0, 1, 0),
                           LengthSquared(ToGrid(Vec3(0, 2 * SPAWN_HALF_LENGTH, 0))),
                           <<joint.radius, 2>>),
      linvel |-> ZERO,
      angvel |-> ZeroAngVel,
      membership |-> {hand_membership(hand)},
      filter |-> hand_filter(hand) ]

\* the bundle spawn_physics_hands spawns for one calibration joint
PhysicsHandBody(hand, joint) ==
    [ by |-> "spawn_physics_hands",
      hand |-> hand,
      bone |-> "Palm",
      init |-> "Absent",
      rigid_body |-> "Fixed",
      translation |-> ToGrid(joint.position),
      rotation |-> joint.orientation,
      collider |-> Capsule(ToGrid(Vec3(0, -SPAWN_HALF_LENGTH, 0)), Vec3(0, 1, 0),
                           LengthSquared(ToGrid(Vec3(0, 2 * SPAWN_HALF_LENGTH, 0))),
                           <<joint.radius, 2>>),
      linvel |-> ZERO,
      angvel |-> ZeroAngVel,
      membership |-> {hand_membership(hand)},
      filter |-> hand_filter(hand) ]

DefaultHand(hand) == IF hand = "Left" THEN get_default_left_hand ELSE get_default_right_hand

PhysicsHandBodies ==
    [ k \in 1..(Len(Hands) * 26) |->
        PhysicsHandBody(Hands[((k - 1) \div 26) + 1],
                        DefaultHand(Hands[((k - 1) \div 26) + 1])[((k - 1) % 26) + 1]) ]

\* a body that carries every component of bone_query: the bundle of
\* spawn_physics_hands with its own bone tag and BoneInitState::False,
\* placed at the origin with the identity rotation
JointBody(hand, bone) ==
    [ PhysicsHandBody(hand, get_joint_data(bone, hand)) EXCEPT
        !.by = "external", !.bone = bone, !.init = "False",
        !.translation = ZERO, !.rotation = IDENTITY ]

StartupSystems == {"setup", "spawn_hand_entities", "spawn_physics_hands", "configure_physics"}
FixedUpdateSystems == {"update_physics_hands", "run_physics_schedule"}

\* RapierConfiguration::timestep_mode before configure_physics runs
DefaultTimestepMode == [mode |-> "Variable", dt_inv |-> 60, substeps |-> 1]

-----------------------------------------------------------------------------
(* The reconciliation step                                                 *)

\* let matching = MatchingType::VelocityMatching
matching == "VelocityMatching"

\* bone_query matches the entities that carry BoneInitState besides the
\* components every body has; iteration is in spawn order
bone_query == { i \in DOMAIN bodies : bodies[i].init # "Absent" }

\* hand_query.get(entity): Ok for a live tracked entity, Err otherwise
hand_query_get(entity) == IF entity \in DOMAIN tracked THEN Some(tracked[entity]) ELSE None

\* the MatchingType::VelocityMatching arm
VelocityMatching_Resizes(bone, start, direction) ==
    [ bone EXCEPT
        !.collider = Capsule(ZERO, NEG_Z, LengthSquared(direction), <<RADIUS, 1>>),
        !.linvel = VScale(VSub(start.translation, bone.translation), FIXED_TIMESTEP_INV),
        !.angvel = AngVel(VScale(VCross(Forward(bone.rotation), direction), FIXED_TIMESTEP_INV),
                          LengthSquared(direction)) ]

\* the arm that sends the body back to BoneInitState::False
VelocityMatching_ResetsFlag(bone, start, direction) ==
    [ bone EXCEPT
        !.linvel = VScale(VSub(start.translation, bone.translation), FIXED_TIMESTEP_INV),
        !.angvel = AngVel(VScale(VCross(Forward(bone.rotation), direction), FIXED_TIMESTEP_INV),
                          LengthSquared(direction)),
        !.init = "False" ]

\* the arm that also moves the body onto the start joint
VelocityMatching_MovesBody(bone, start, direction) ==
    [ bone EXCEPT
        !.translation = start.translation,
        !.linvel = VScale(VSub(start.translation, bone.translation), FIXED_TIMESTEP_INV),
        !.angvel = AngVel(VScale(VCross(Forward(bone.rotation), direction), FIXED_TIMESTEP_INV),
                          LengthSquared(direction)) ]

\* the arm with the linear velocity aimed at the end joint
VelocityMatching_ChasesEnd(bone, start, direction) ==
    [ bone EXCEPT
        !.linvel = VScale(VSub(VSub(start.translation, bone.translation), VScale(direction, -1)),
                          FIXED_TIMESTEP_INV),
        !.angvel = AngVel(VScale(VCross(Forward(bone.rotation), direction), FIXED_TIMESTEP_INV),
                          LengthSquared(direction)) ]

VelocityMatching(bone, start, direction) ==
    [ bone EXCEPT
        !.linvel = VScale(VSub(start.translation, bone.translation), FIXED_TIMESTEP_INV),
        !.angvel = AngVel(VScale(VCross(Forward(bone.rotation), direction), FIXED_TIMESTEP_INV),
                          LengthSquared(direction)) ]

\* the MatchingType::PositionMatching arm
PositionMatching(bone, start, direction) ==
    [ bone EXCEPT !.translation = start.translation, !.rotation = <<"looking_to", direction>> ]

\* the False arm giving a velocity as well
InitCollider_AlsoVelocity(bone, direction) ==
    [ bone EXCEPT
        !.collider = Capsule(ZERO, NEG_Z, LengthSquared(direction), <<RADIUS, 1>>),
        !.linvel = VScale(direction, FIXED_TIMESTEP_INV),
        !.init = "True" ]

\* the BoneInitState::False arm
InitCollider(bone, direction) ==
    [ bone EXCEPT
        !.collider = Capsule(ZERO, NEG_Z, LengthSquared(direction), <<RADIUS, 1>>),
        !.init = "True" ]

\* how the loop goes on once a span measures degenerate: `return`
OnDegenerate == "return"

\* one iteration without the skip of the left hand
VisitBody_BothHands(res, bone) ==
      LET hand_res == IF bone.hand = "Left" THEN res.left ELSE res.right
          result == get_start_and_end_entities(hand_res, bone.bone)
      IN  IF result = None THEN [body |-> bone, flow |-> "next"]
          ELSE
            LET start_components == hand_query_get(result[1][1])
                end_components == hand_query_get(result[1][2])
            IN  IF end_components = None \/ start_components = None
                THEN [body |-> bone, flow |-> "panic"]
                ELSE
                  LET start == start_components[1]
                      direction == VSub(end_components[1].translation, start.translation)
                  IN  IF IsDegenerate(direction)
                      THEN [body |-> bone, flow |-> OnDegenerate]
                      ELSE IF bone.init = "True"
                      THEN [body |-> IF matching = "PositionMatching"
                                     THEN PositionMatching(bone, start, direction)
                                     ELSE VelocityMatching(bone, start, direction),
                            flow |-> "next"]
                      ELSE [body |-> InitCollider(bone, direction), flow |-> "next"]

\* one iteration of the loop body: the body afterwards, and how the loop goes on
VisitBody(res, bone) ==
    IF bone.hand = "Left" THEN [body |-> bone, flow |-> "next"]
    ELSE
      LET hand_res == IF bone.hand = "Left" THEN res.left ELSE res.right
          result == get_start_and_end_entities(hand_res, bone.bone)
      IN  IF result = None THEN [body |-> bone, flow |-> "next"]
          ELSE
            LET start_components == hand_query_get(result[1][1])
                end_components == hand_query_get(result[1][2])
            IN  IF end_components = None \/ start_components = None
                THEN [body |-> bone, flow |-> "panic"]
                ELSE
                  LET start == start_components[1]
                      direction == VSub(end_components[1].translation, start.translation)
                  IN  IF IsDegenerate(direction)
                      THEN [body |-> bone, flow |-> OnDegenerate]
                      ELSE IF bone.init = "True"
                      THEN [body |-> IF matching = "PositionMatching"
                                     THEN PositionMatching(bone, start, direction)
                                     ELSE VelocityMatching(bone, start, direction),
                            flow |-> "next"]
                      ELSE [body |-> InitCollider(bone, direction), flow |-> "next"]

RECURSIVE RunLoop(_, _, _)
RunLoop(res, i, bs) ==
    IF i > Len(bs) THEN [bodies |-> bs, outcome |-> "completed"]
    ELSE IF i \notin bone_query THEN RunLoop(res, i + 1, bs)
    ELSE LET v == VisitBody(res, bs[i])
             after == [bs EXCEPT ![i] = v.body]
         IN  IF v.flow = "next" THEN RunLoop(res, i + 1, after)
             ELSE [bodies |-> after, outcome |-> v.flow]

\* the step taking the table for granted: Res<HandsResource>, not Option
update_physics_hands_UnwrapsTable ==
    IF hands_res = None THEN [bodies |-> bodies, outcome |-> "panic"]
    ELSE RunLoop(hands_res[1], 1, bodies)

update_physics_hands ==
    IF hands_res = None THEN [bodies |-> bodies, outcome |-> "no_resource"]
    ELSE RunLoop(hands_res[1], 1, bodies)

-----------------------------------------------------------------------------
(* Schedules                                                               *)

\* the PhysicsSchedule: the three sets chained, each holding its rapier systems
PhysicsSchedule_Unchained == << "StepSimulation", "SyncBackend", "Writeback" >>

PhysicsSchedule == << "SyncBackend", "StepSimulation", "Writeback" >>

\* the systems of FixedUpdate that must have run before `system` may run:
\* update_physics_hands.before(PhysicsSet::SyncBackend) orders it before the
\* systems of that set in FixedUpdate, and no system of FixedUpdate is in it
FixedUpdateBefore(system) == {}

\* rapier's step: a RigidBody::Fixed body is never moved
StepSimulation(body) ==
    IF body.rigid_body = "Fixed" THEN body
    ELSE [ body EXCEPT !.translation =
             Vec3(body.translation[1] + body.linvel[1] \div rapier_config.dt_inv,
                  body.translation[2] + body.linvel[2] \div rapier_config.dt_inv,
                  body.translation[3] + body.linvel[3] \div rapier_config.dt_inv) ]

-----------------------------------------------------------------------------
(* Actions                                                                 *)

\* a HandResource whose 26 slots hold 26 different entities
FullHandResource == [ bone \in Bones |-> 100 + get_index_from_bone(bone) ]

\* the HandResource values get_start_and_end_entities is called with: the
\* default one (every slot the placeholder), and two with 26 different entities
HandResources ==
    { [ bone \in Bones |-> PLACEHOLDER ],
      FullHandResource,
      [ bone \in Bones |-> 200 + get_index_from_bone(bone) ] }

NoCall ==
    [fn |-> "none", bone |-> "Palm", hand |-> "Left", index |-> 0, hand_res |-> FullHandResource]

WorldInit ==
    /\ phase = "Startup"
    /\ pending = StartupSystems
    /\ frameLog = << >>
    /\ ticks = 0
    /\ hands_res = None
    /\ tracked = << >>
    /\ bodies = << >>
    /\ rapier_config = DefaultTimestepMode

Init == WorldInit /\ call = NoCall /\ ret = None

Setup ==
    /\ phase = "Startup" /\ "setup" \in pending
    /\ pending' = pending \ {"setup"}
    /\ UNCHANGED <<phase, frameLog, ticks, hands_res, tracked, bodies, rapier_config, call, ret>>

ConfigurePhysics ==
    /\ phase = "Startup" /\ "configure_physics" \in pending
    /\ pending' = pending \ {"configure_physics"}
    /\ rapier_config' = [mode |-> "Fixed", dt_inv |-> FIXED_TIMESTEP_INV, substeps |-> 1]
    /\ UNCHANGED <<phase, frameLog, ticks, hands_res, tracked, bodies, call, ret>>

\* spawn_hand_entities publishing the table after the first hand only
SpawnHandEntities_AfterFirstHand ==
    /\ phase = "Startup" /\ "spawn_hand_entities" \in pending
    /\ pending' = pending \ {"spawn_hand_entities"}
    /\ tracked' = SpawnedEntities
    /\ hands_res' = Some([ left |-> HandResourceOf("Left"),
                           right |-> [ bone \in Bones |-> PLACEHOLDER ] ])
    /\ UNCHANGED <<phase, frameLog, ticks, bodies, rapier_config, call, ret>>

\* spawn_hand_entities and the sync point that applies its commands
SpawnHandEntities ==
    /\ phase = "Startup" /\ "spawn_hand_entities" \in pending
    /\ pending' = pending \ {"spawn_hand_entities"}
    /\ tracked' = SpawnedEntities
    /\ hands_res' = Some(HandsResource)
    /\ UNCHANGED <<phase, frameLog, ticks, bodies, rapier_config, call, ret>>

\* spawn_physics_hands: ordered after spawn_hand_entities; Res<HandsResource> must exist
SpawnPhysicsHands ==
    /\ phase = "Startup" /\ "spawn_physics_hands" \in pending
    /\ "spawn_hand_entities" \notin pending
    /\ pending' = pending \ {"spawn_physics_hands"}
    /\ IF hands_res = None
       THEN phase' = "Panicked" /\ UNCHANGED bodies
       ELSE bodies' = bodies \o PhysicsHandBodies /\ UNCHANGED phase
    /\ UNCHANGED <<frameLog, ticks, hands_res, tracked, rapier_config, call, ret>>

\* sequences of n distinct kinds
KindSeqs(n) ==
    { s \in [1..n -> JointBodyKinds] : \A i, j \in 1..n : i # j => s[i] # s[j] }

\* the bodies of a sequence of kinds
JointBodies(kinds) ==
    [ k \in DOMAIN kinds |->
        [JointBody(kinds[k][1], kinds[k][2]) EXCEPT !.rotation = kinds[k][3]] ]

\* the Startup schedule ends; the world the step runs against holds, besides the
\* bodies of spawn_physics_hands, up to `most` bodies that match bone_query
EndStartup(most) ==
    /\ phase = "Startup" /\ pending = {}
    /\ \E n \in 0..most :
         \E kinds \in KindSeqs(n) :
            bodies' = bodies \o JointBodies(kinds)
    /\ phase' = "PreUpdate"
    /\ UNCHANGED <<pending, frameLog, ticks, hands_res, tracked, rapier_config, call, ret>>

SpawnJointBodies == EndStartup(MaxJointBodies)

\* the XR input layer reports a pose of a hand that has a body in bone_query
\* (once per frame, before the FixedUpdate runs of the frame)
XrInput ==
    /\ phase = "PreUpdate"
    /\ \E hand \in { bodies[i].hand : i \in bone_query }, pose \in XrPoses :
         /\ tracked' = [ k \in DOMAIN tracked |->
                           IF tracked[k].hand = hand
                           THEN [tracked[k] EXCEPT !.translation = PoseTranslation(pose, k)]
                           ELSE tracked[k] ]
         /\ tracked' # tracked
    /\ UNCHANGED <<phase, pending, frameLog, ticks, hands_res, bodies, rapier_config, call, ret>>

\* a system of FixedUpdate has run: the run ends with the last of them
FinishSystem(system) ==
    /\ pending' = pending \ {system}
    /\ phase' = IF pending \ {system} = {} THEN "RunFixedMainLoop" ELSE phase

BeginFixedUpdateCore ==
    /\ phase \in {"PreUpdate", "RunFixedMainLoop"}
    /\ phase' = "FixedUpdate"
    /\ pending' = FixedUpdateSystems
    /\ UNCHANGED <<hands_res, tracked, bodies, rapier_config, call, ret>>

UpdatePhysicsHandsCore ==
    /\ phase = "FixedUpdate" /\ "update_physics_hands" \in pending
    /\ FixedUpdateBefore("update_physics_hands") \cap pending = {}
    /\ bodies' = update_physics_hands.bodies
    /\ IF update_physics_hands.outcome = "panic"
       THEN phase' = "Panicked" /\ UNCHANGED pending
       ELSE FinishSystem("update_physics_hands")
    /\ UNCHANGED <<hands_res, tracked, rapier_config, call, ret>>

\* run_physics_schedule: world.run_schedule(PhysicsSchedule)
RunPhysicsScheduleCore ==
    /\ phase = "FixedUpdate" /\ "run_physics_schedule" \in pending
    /\ FixedUpdateBefore("run_physics_schedule") \cap pending = {}
    /\ bodies' = [i \in DOMAIN bodies |-> StepSimulation(bodies[i])]
    /\ FinishSystem("run_physics_schedule")
    /\ UNCHANGED <<hands_res, tracked, rapier_config, call, ret>>

\* PostUpdate: TransformSystem::TransformPropagate
TransformPropagateCore ==
    /\ phase \in {"PreUpdate", "RunFixedMainLoop"}
    /\ phase' = "Last"
    /\ UNCHANGED <<pending, hands_res, tracked, bodies, rapier_config, call, ret>>

NextFrameCore ==
    /\ phase = "Last"
    /\ phase' = "PreUpdate"
    /\ UNCHANGED <<pending, hands_res, tracked, bodies, rapier_config, call, ret>>

BeginFixedUpdate == BeginFixedUpdateCore /\ UNCHANGED <<frameLog, ticks>>
UpdatePhysicsHands == UpdatePhysicsHandsCore /\ UNCHANGED <<frameLog, ticks>>
RunPhysicsSchedule == RunPhysicsScheduleCore /\ UNCHANGED <<frameLog, ticks>>
TransformPropagate == TransformPropagateCore /\ UNCHANGED <<frameLog, ticks>>
NextFrame == NextFrameCore /\ UNCHANGED <<frameLog, ticks>>

Next ==
    \/ Setup
    \/ ConfigurePhysics
    \/ SpawnHandEntities
    \/ SpawnPhysicsHands
    \/ SpawnJointBodies
    \/ XrInput
    \/ BeginFixedUpdate
    \/ UpdatePhysicsHands
    \/ RunPhysicsSchedule
    \/ TransformPropagate
    \/ NextFrame

Spec == Init /\ [][Next]_vars

-----------------------------------------------------------------------------
(* The same program with the stages of each frame logged, for up to        *)
(* MaxTicksPerFrame FixedUpdate runs per frame and one body in bone_query  *)

SpawnOneJointBody == EndStartup(1)

BeginFixedUpdateLogged ==
    /\ ticks < MaxTicksPerFrame
    /\ BeginFixedUpdateCore
    /\ UNCHANGED <<frameLog, ticks>>

UpdatePhysicsHandsLogged ==
    /\ UpdatePhysicsHandsCore
    /\ frameLog' = Append(frameLog, "update_physics_hands")
    /\ ticks' = IF phase' = "RunFixedMainLoop" THEN ticks + 1 ELSE ticks

RunPhysicsScheduleLogged ==
    /\ RunPhysicsScheduleCore
    /\ frameLog' = frameLog \o PhysicsSchedule
    /\ ticks' = IF phase' = "RunFixedMainLoop" THEN ticks + 1 ELSE ticks

TransformPropagateLogged ==
    /\ TransformPropagateCore
    /\ frameLog' = Append(frameLog, "TransformPropagate")
    /\ UNCHANGED ticks

NextFrameLogged ==
    /\ NextFrameCore
    /\ frameLog' = << >>
    /\ ticks' = 0

NextSched ==
    \/ Setup
    \/ ConfigurePhysics
    \/ SpawnHandEntities
    \/ SpawnPhysicsHands
    \/ SpawnOneJointBody
    \/ BeginFixedUpdateLogged
    \/ UpdatePhysicsHandsLogged
    \/ RunPhysicsScheduleLogged
    \/ TransformPropagateLogged
    \/ NextFrameLogged

SpecSched == Init /\ [][NextSched]_vars

-----------------------------------------------------------------------------
(* The step against a world whose HandsResource is inserted late: the      *)
(* step takes Option<Res<HandsResource>>, and runs its None arm until the  *)
(* commands of spawn_hand_entities are applied. (As main wires the app,    *)
(* Startup is over before the first FixedUpdate run.)                      *)

LateInit ==
    /\ phase = "PreUpdate"
    /\ pending = {}
    /\ frameLog = << >>
    /\ ticks = 0
    /\ hands_res = None
    /\ tracked = << >>
    /\ \E n \in 0..MaxJointBodies : \E kinds \in KindSeqs(n) : bodies = JointBodies(kinds)
    /\ rapier_config = [mode |-> "Fixed", dt_inv |-> FIXED_TIMESTEP_INV, substeps |-> 1]
    /\ call = NoCall /\ ret = None

\* the commands of spawn_hand_entities are applied between two FixedUpdate runs
PublishHandsResource ==
    /\ phase \in {"PreUpdate", "RunFixedMainLoop"}
    /\ hands_res = None
    /\ tracked' = SpawnedEntities
    /\ hands_res' = Some(HandsResource)
    /\ frameLog' = Append(frameLog, "HandsResource")
    /\ UNCHANGED <<phase, pending, ticks, bodies, rapier_config, call, ret>>

NextLate ==
    \/ PublishHandsResource
    \/ XrInput
    \/ BeginFixedUpdateLogged
    \/ UpdatePhysicsHandsLogged
    \/ RunPhysicsScheduleLogged
    \/ TransformPropagateLogged
    \/ NextFrameLogged

SpecLate == LateInit /\ [][NextLate]_vars

-----------------------------------------------------------------------------
(* Pure functions, called on every input of their domain                   *)

Calls ==
    { [NoCall EXCEPT !.fn = "get_start_and_end_joints", !.bone = b, !.hand = h] :
        b \in Bones, h \in HandSet }
    \cup
    { [NoCall EXCEPT !.fn = "get_physics_bone_from_index", !.index = i] :
        i \in 0..MaxIndex }
    \cup
    { [NoCall EXCEPT !.fn = "get_joint_data", !.bone = n, !.hand = h] :
        n \in JointNames, h \in HandSet }
    \cup
    { [NoCall EXCEPT !.fn = "get_start_and_end_entities", !.bone = b, !.hand = h, !.hand_res = t] :
        b \in Bones, h \in HandSet, t \in HandResources }

TopoInit == WorldInit /\ call \in Calls /\ ret = None

CallGetStartAndEndJoints ==
    /\ call.fn = "get_start_and_end_joints" /\ ret = None
    /\ ret' = Some(get_start_and_end_joints(call.bone, call.hand))
    /\ UNCHANGED <<phase, pending, frameLog, ticks, hands_res, tracked, bodies, rapier_config, call>>

CallGetPhysicsBoneFromIndex ==
    /\ call.fn = "get_physics_bone_from_index" /\ ret = None
    /\ ret' = Some(get_physics_bone_from_index(call.index))
    /\ UNCHANGED <<phase, pending, frameLog, ticks, hands_res, tracked, bodies, rapier_config, call>>

CallGetStartAndEndEntities ==
    /\ call.fn = "get_start_and_end_entities" /\ ret = None
    /\ ret' = Some(get_start_and_end_entities(call.hand_res, call.bone))
    /\ UNCHANGED <<phase, pending, frameLog, ticks, hands_res, tracked, bodies, rapier_config, call>>

CallGetJointData ==
    /\ call.fn = "get_joint_data" /\ ret = None
    /\ ret' = Some(get_joint_data(call.bone, call.hand))
    /\ UNCHANGED <<phase, pending, frameLog, ticks, hands_res, tracked, bodies, rapier_config, call>>

TopoNext ==
    \/ CallGetJointData
    \/ CallGetStartAndEndJoints
    \/ CallGetPhysicsBoneFromIndex
    \/ CallGetStartAndEndEntities

SpecTopo == TopoInit /\ [][TopoNext]_vars

-----------------------------------------------------------------------------
(* Properties of the reconciliation step (checked under Spec)              *)

\* the transition is a run of update_physics_hands
StepRan ==
    /\ phase = "FixedUpdate" /\ "update_physics_hands" \in pending
    /\ phase' = "Panicked" \/ "update_physics_hands" \notin pending'

\* the table of the hand body i is tagged with
TableOf(i) == IF bodies[i].hand = "Left" THEN hands_res[1].left ELSE hands_res[1].right

\* the bone of body i resolves to two live tracked entities
SpanResolved(i) ==
    /\ hands_res # None
    /\ get_start_and_end_entities(TableOf(i), bodies[i].bone) # None
    /\ get_start_and_end_entities(TableOf(i), bodies[i].bone)[1][1] \in DOMAIN tracked
    /\ get_start_and_end_entities(TableOf(i), bodies[i].bone)[1][2] \in DOMAIN tracked

StartOf(i) == tracked[get_start_and_end_entities(TableOf(i), bodies[i].bone)[1][1]]
EndOf(i) == tracked[get_start_and_end_entities(TableOf(i), bodies[i].bone)[1][2]]

\* the squared length of the bone of body i as tracked now, in grid units
MeasuredLenSq(i) == LengthSquared(VSub(EndOf(i).translation, StartOf(i).translation))

\* 0.001 m is two grid units
BelowThreshold(lenSq) == lenSq < 4

\* a run of the step has ended in the current FixedUpdate run, on the
\* transforms the tracked entities still have
AfterStep == phase = "RunFixedMainLoop"

\* C1: with the table published, the step never aborts: for every body whose
\* bone has a span (a Distal bone, ending in a Tip, included) it reads both
\* tracked transforms or skips the body.
C1_StepNeverAborts == phase # "Panicked"

\* the body is one the step is to process: right hand, span resolved, length
\* not degenerate
Eligible(i) ==
    /\ bodies[i].hand = "Right"
    /\ SpanResolved(i)
    /\ ~BelowThreshold(MeasuredLenSq(i))

\* the transition initialized body i, or gave it the velocities of this tick
Processed(i) ==
    IF bodies[i].init = "False"
    THEN bodies'[i].init = "True"
    ELSE /\ bodies'[i].linvel = VScale(VSub(StartOf(i).translation, bodies[i].translation), 60)
         /\ bodies'[i].angvel =
              AngVel(VScale(VCross(Forward(bodies[i].rotation),
                                   VSub(EndOf(i).translation, StartOf(i).translation)), 60),
                     MeasuredLenSq(i))

\* C2: a degenerate bone length skips that body only: in a tick where one
\* body's bone is degenerate, every other eligible body is still processed.
C2_DegenerateSkipsOnlyThatBody ==
    [][ ( /\ StepRan
          /\ phase' # "Panicked"
          /\ \E j \in bone_query :
                bodies[j].hand = "Right" /\ SpanResolved(j) /\ BelowThreshold(MeasuredLenSq(j)) )
        => \A i \in bone_query : Eligible(i) => Processed(i) ]_vars

\* C3: when the measured length of a body's bone is below 0.001 in a tick, the
\* step leaves the body's transform, collider, velocity and initialization
\* flag as they were, whether the body is Uninitialized or Initialized.
C3_DegenerateLeavesBodyUnchanged ==
    [][ StepRan =>
          \A i \in bone_query :
             (SpanResolved(i) /\ BelowThreshold(MeasuredLenSq(i))) => bodies'[i] = bodies[i] ]_vars

\* a tick has just run in which an Initialized and an Uninitialized right-hand
\* body both measured a degenerate bone
C3_Witness ==
    /\ AfterStep
    /\ \E i, j \in bone_query :
         /\ bodies[i].hand = "Right" /\ bodies[i].init = "True"
         /\ SpanResolved(i) /\ BelowThreshold(MeasuredLenSq(i))
         /\ bodies[j].hand = "Right" /\ bodies[j].init = "False"
         /\ SpanResolved(j) /\ BelowThreshold(MeasuredLenSq(j))

\* C4 (as amended): the collider is written once. The transition that
\* initializes a body is a run of the step and leaves it the capsule whose
\* segment runs from the local origin to (0, 0, -L), L the length measured in
\* that tick (segment length L, half-length L/2), radius 0.010; afterwards no
\* transition changes the collider or the flag, whatever the live length.
C4_ColliderBuiltOnce ==
    [][ \A i \in bone_query :
          /\ (bodies[i].init = "False" /\ bodies'[i].init = "True") =>
                /\ StepRan
                /\ bodies'[i].collider = Capsule(ZERO, NEG_Z, MeasuredLenSq(i), <<RADIUS, 1>>)
          /\ bodies[i].init = "True" =>
                /\ bodies'[i].init = "True"
                /\ bodies'[i].collider = bodies[i].collider ]_vars

\* a tick has just run on an Initialized body whose live bone length is not
\* degenerate and differs from the length its collider was built from
C4_Witness ==
    /\ AfterStep
    /\ \E i \in bone_query :
         /\ bodies[i].init = "True"
         /\ Eligible(i)
         /\ bodies[i].collider.lenSq # MeasuredLenSq(i)
         /\ bodies[i].collider.axis = NEG_Z

\* C4 as stated: the capsule built on initialization has half-length L, that
\* is a segment of length 2L (squared: 4 L^2), and is never changed afterwards.
C4_HalfLengthIsL ==
    [][ \A i \in bone_query :
          /\ (bodies[i].init = "False" /\ bodies'[i].init = "True") =>
                bodies'[i].collider.lenSq = 4 * MeasuredLenSq(i)
          /\ bodies[i].init = "True" => bodies'[i].collider = bodies[i].collider ]_vars

\* the loop of this run of the step reaches body i: no body before it in
\* iteration order ends the run
Reached(i) ==
    \A j \in bone_query :
        j < i => VisitBody(hands_res[1], bodies[j]).flow = "next"

VDot(a, b) == a[1] * b[1] + a[2] * b[2] + a[3] * b[3]

\* body i sits on the start joint of its bone and its forward is the direction
\* from the start joint to the end joint
Converged(i) ==
    /\ bodies[i].translation = StartOf(i).translation
    /\ VCross(Forward(bodies[i].rotation),
              VSub(EndOf(i).translation, StartOf(i).translation)) = ZERO
    /\ VDot(Forward(bodies[i].rotation),
            VSub(EndOf(i).translation, StartOf(i).translation)) > 0

\* C12: velocity matching is a fixed point at convergence: an Initialized body
\* that sits on its start joint with forward equal to the desired forward is
\* assigned linear velocity (0,0,0) and angular velocity (0,0,0).
C12_ZeroVelocityAtConvergence ==
    [][ (StepRan /\ phase' # "Panicked") =>
          \A i \in bone_query :
             (bodies[i].init = "True" /\ Eligible(i) /\ Reached(i) /\ Converged(i)) =>
                 /\ bodies'[i].linvel = ZERO
                 /\ bodies'[i].angvel = ZeroAngVel ]_vars

\* a tick has just run on an Initialized, converged right-hand body, together
\* with an Initialized body that is not converged and was given a velocity
C12_Witness ==
    /\ AfterStep
    /\ \E i, j \in bone_query :
         /\ bodies[i].init = "True" /\ Eligible(i) /\ Converged(i)
         /\ bodies[i].linvel = ZERO /\ bodies[i].angvel = ZeroAngVel
         /\ i < j /\ bodies[j].init = "True" /\ Eligible(j) /\ ~Converged(j)
         /\ bodies[j].linvel # ZERO

\* C13 (as stated): with the tracked ThumbMetacarpal at (0,0,0), the tracked
\* ThumbProximal at (0,0,-0.02) and an Initialized ThumbMetacarpal body at the
\* origin facing +Z, the step assigns linear velocity (0,0,0) and a nonzero
\* angular velocity.
C13_HalfTurnGetsAngularVelocity ==
    [][ (StepRan /\ phase' # "Panicked") =>
          \A i \in bone_query :
             ( /\ bodies[i].init = "True" /\ Eligible(i) /\ Reached(i)
               /\ bodies[i].bone = "ThumbMetacarpal"
               /\ bodies[i].translation = ZERO
               /\ Forward(bodies[i].rotation) = Vec3(0, 0, 1)
               /\ StartOf(i).translation = ZERO
               /\ EndOf(i).translation = Vec3(0, 0, -40) ) =>
                 /\ bodies'[i].linvel = ZERO
                 /\ bodies'[i].angvel # ZeroAngVel ]_vars

\* the bodies spawn_physics_hands created
SpawnerBodies == { i \in DOMAIN bodies : bodies[i].by = "spawn_physics_hands" }

\* the collision groups (membership, filter) the bodies of a hand carry
GroupsOf(hand) ==
    { [membership |-> bodies[i].membership, filter |-> bodies[i].filter] :
        i \in { k \in DOMAIN bodies : bodies[k].hand = hand } }

\* the collision groups the spawner's bodies of a hand carry
SpawnerGroupsOf(hand) ==
    { [membership |-> bodies[i].membership, filter |-> bodies[i].filter] :
        i \in { k \in SpawnerBodies : bodies[k].hand = hand } }

\* Left = GROUP_1, Right = GROUP_2, floor = GROUP_3
GroupOfHand(hand) == IF hand = "Left" THEN 1 ELSE 2
OtherHand(hand) == IF hand = "Left" THEN "Right" ELSE "Left"

\* C14 (as amended): every body of the spawner has membership equal to its own
\* hand's group (Left = GROUP_1, Right = GROUP_2) and a filter that is all
\* groups minus its own hand's group and minus the floor group (GROUP_3).
C14_FilterExcludesOwnHandAndFloor ==
    \A i \in SpawnerBodies :
        /\ bodies[i].membership = {GroupOfHand(bodies[i].hand)}
        /\ bodies[i].filter = (1..32) \ {GroupOfHand(bodies[i].hand), 3}

\* the spawner has run: a Left body and a Right body exist, the Left one
\* filtering out group 1 and keeping group 2, the Right one the reverse
C14_Witness ==
    /\ SpawnerGroupsOf("Left") = { [membership |-> {1}, filter |-> (1..32) \ {1, 3}] }
    /\ SpawnerGroupsOf("Right") = { [membership |-> {2}, filter |-> (1..32) \ {2, 3}] }

\* C14 as stated: the filter is all groups minus the other hand's group and
\* minus the floor group.
C14_FilterExcludesOtherHandAndFloor ==
    \A i \in SpawnerBodies :
        /\ bodies[i].membership = {GroupOfHand(bodies[i].hand)}
        /\ bodies[i].filter = (1..32) \ {GroupOfHand(OtherHand(bodies[i].hand)), 3}

\* colliders whose membership is the floor group only, with the filters a
\* floor may have
FloorColliders ==
    { [membership |-> {3}, filter |-> f] : f \in { 1..32, {1, 2}, {1}, {2}, (1..32) \ {3} } }

\* C15: under the pair rule no two bodies of one hand interact, and no hand
\* body interacts with a collider whose membership is the floor group only.
C15_NoSelfOrFloorInteraction ==
    \A hand \in HandSet :
        /\ \A a, b \in GroupsOf(hand) : ~Interact(a, b)
        /\ \A a \in GroupsOf(hand) : \A floor \in FloorColliders : ~Interact(a, floor)

\* both hands' bodies exist: two of the left hand, two of the right
C15_Witness ==
    /\ Len(bodies) >= 52
    /\ bodies[1].hand = "Left" /\ bodies[2].hand = "Left"
    /\ bodies[51].hand = "Right" /\ bodies[52].hand = "Right"
    /\ ~Interact(bodies[1], bodies[2]) /\ ~Interact(bodies[51], bodies[52])
    /\ ~Interact(bodies[1], [membership |-> {3}, filter |-> 1..32])

\* C16: under the pair rule a Left body and a Right body of the spawner may
\* interact, and a hand body may interact with a scene collider of default
\* membership and filter.
C16_OtherHandAndSceneInteract ==
    /\ \A a \in SpawnerGroupsOf("Left") : \A b \in SpawnerGroupsOf("Right") :
          Interact(a, b) /\ Interact(b, a)
    /\ \A hand \in HandSet : \A a \in SpawnerGroupsOf(hand) :
          Interact(a, CollisionGroupsDefault)

C16_Witness ==
    /\ Len(bodies) >= 52
    /\ bodies[26].by = "spawn_physics_hands" /\ bodies[26].hand = "Left"
    /\ bodies[27].by = "spawn_physics_hands" /\ bodies[27].hand = "Right"
    /\ Interact(bodies[26], bodies[27])
    /\ Interact(bodies[27], CollisionGroupsDefault)

\* C17: with no table published a run of the step changes no body and does
\* not fail; once the table is published the step processes the bodies as on
\* any tick (every eligible body its loop reaches is initialized or given
\* velocities), with no other action needed.
C17_NoTableIsNoOpThenResumes ==
    [][ StepRan =>
          IF hands_res = None
          THEN bodies' = bodies /\ phase' # "Panicked"
          ELSE phase' # "Panicked" =>
                 \A i \in bone_query : (Eligible(i) /\ Reached(i)) => Processed(i) ]_vars

\* the step ran without a table, the table was published, and the one run of
\* the step since then initialized a body
C17_Witness ==
    /\ AfterStep
    /\ hands_res # None
    /\ \E k \in DOMAIN frameLog :
          /\ frameLog[k] = "HandsResource"
          /\ \E j \in 1..(k - 1) : frameLog[j] = "update_physics_hands"
          /\ Cardinality({ j \in (k + 1)..Len(frameLog) : frameLog[j] = "update_physics_hands" }) = 1
    /\ \E i \in bone_query :
          /\ bodies[i].init = "True" /\ Eligible(i)
          /\ bodies[i].collider = Capsule(ZERO, NEG_Z, MeasuredLenSq(i), <<RADIUS, 1>>)

\* the bodies of the spawner tagged with one hand
SpawnerBodiesOf(hand) == { i \in SpawnerBodies : bodies[i].hand = hand }

\* C18 (as stated): after startup the spawner has made exactly 26 bodies per
\* hand, one per calibration joint, each a dynamic rigid body with zero linear
\* and angular velocity and a capsule of half-length 0.0575 (115 grid units)
\* and radius joint.radius / 2.
C18_SpawnerBodiesAreDynamic ==
    phase \notin {"Startup", "Panicked"} =>
        \A hand \in HandSet :
            /\ Cardinality(SpawnerBodiesOf(hand)) = 26
            /\ \A n \in 1..26 :
                  \E i \in SpawnerBodiesOf(hand) :
                      /\ bodies[i].translation = ToGrid(DefaultHand(hand)[n].position)
                      /\ bodies[i].rotation = DefaultHand(hand)[n].orientation
                      /\ bodies[i].collider.radius = <<DefaultHand(hand)[n].radius, 2>>
            /\ \A i \in SpawnerBodiesOf(hand) :
                  /\ bodies[i].rigid_body = "Dynamic"
                  /\ bodies[i].linvel = ZERO /\ bodies[i].angvel = ZeroAngVel
                  /\ bodies[i].collider.lenSq = (2 * 115) * (2 * 115)
                  /\ bodies[i].collider.a = Vec3(0, -115, 0)

\* C19 (as stated): every body of the spawner carries the initialization
\* flag, Uninitialized while startup lasts, so that bone_query matches it and
\* the step visits it.
C19_SpawnerBodiesCarryInitFlag ==
    \A i \in SpawnerBodies :
        /\ i \in bone_query
        /\ bodies[i].init \in {"False", "True"}
        /\ phase = "Startup" => bodies[i].init = "False"

\* C20 (as stated): once the table is published, each of the 26 slots of each
\* hand holds a tracked entity spawned for that hand and that bone, and no
\* two slots of a hand hold the same identity.
C20_EverySlotHoldsItsEntity ==
    hands_res # None =>
        \A hand \in HandSet :
            LET table == IF hand = "Left" THEN hands_res[1].left ELSE hands_res[1].right
            IN  /\ \A bone \in Bones :
                      /\ table[bone] # PLACEHOLDER
                      /\ table[bone] \in DOMAIN tracked
                      /\ tracked[table[bone]].hand = hand
                      /\ tracked[table[bone]].bone = bone
                /\ \A b1, b2 \in Bones : b1 # b2 => table[b1] # table[b2]

\* the linear and the angular velocity velocity matching computes for body i:
\* (start.translation - body.translation) / dt, and
\* cross(body.forward, desired_forward) / dt with desired_forward the unit
\* vector from the start joint to the end joint
DesiredLinvel(i) == VScale(VSub(StartOf(i).translation, bodies[i].translation), 60)
DesiredAngvel(i) ==
    AngVel(VScale(VCross(Forward(bodies[i].rotation),
                         VSub(EndOf(i).translation, StartOf(i).translation)), 60),
           MeasuredLenSq(i))

\* C21: for an Initialized body with resolved span and non-degenerate length
\* the step sets the linear velocity to (start.translation - body.translation)
\* / dt and the angular velocity to cross(body.forward, desired_forward) / dt
\* and writes nothing else: transform, collider and flag are unchanged.
C21_VelocityMatchingWritesOnlyVelocity ==
    [][ (StepRan /\ phase' # "Panicked") =>
          \A i \in bone_query :
             ( /\ bodies[i].init = "True"
               /\ SpanResolved(i) /\ ~BelowThreshold(MeasuredLenSq(i))
               /\ Reached(i) ) =>
                 bodies'[i] = [ bodies[i] EXCEPT !.linvel = DesiredLinvel(i),
                                                 !.angvel = DesiredAngvel(i) ] ]_vars

\* a tick has just given an Initialized body, away from its start joint and
\* not aligned with its bone, a nonzero linear and a nonzero angular velocity
C21_Witness ==
    /\ AfterStep
    /\ \E i \in bone_query :
         /\ bodies[i].init = "True" /\ Eligible(i)
         /\ bodies[i].linvel = DesiredLinvel(i) /\ bodies[i].linvel # ZERO
         /\ bodies[i].angvel = DesiredAngvel(i) /\ bodies[i].angvel # ZeroAngVel
         /\ bodies[i].translation = ZERO /\ bodies[i].collider.axis = NEG_Z

\* C22: the step never modifies a Left-hand body: a run of the step leaves
\* every body tagged Left, with its transform, collider, velocity and flag,
\* as it found it.
C22_LeftBodiesNeverWritten ==
    [][ StepRan =>
          \A i \in DOMAIN bodies : bodies[i].hand = "Left" => bodies'[i] = bodies[i] ]_vars

\* a tick has just run that initialized a Right body after passing a Left body
\* which has a resolved span of non-degenerate length and is still Uninitialized
C22_Witness ==
    /\ AfterStep
    /\ \E i, j \in bone_query :
         /\ i < j
         /\ bodies[i].hand = "Left" /\ bodies[i].init = "False"
         /\ SpanResolved(i) /\ ~BelowThreshold(MeasuredLenSq(i))
         /\ bodies[i].collider.axis # NEG_Z
         /\ bodies[j].hand = "Right" /\ bodies[j].init = "True"

\* the bone of body i has no span (Palm, Wrist, a Tip)
HasNoSpan(i) == get_start_and_end_joints(bodies[i].bone, bodies[i].hand) = None

\* C23: a body whose bone has no span is skipped on every tick: its visit
\* raises no error and leaves transform, collider, velocity and flag as they
\* were, and no step of the program takes it out of Uninitialized.
C23_NoSpanBodySkippedForever ==
    [][ \A i \in bone_query :
          HasNoSpan(i) =>
             /\ bodies[i].init = "False" /\ bodies'[i].init = "False"
             /\ StepRan =>
                   /\ bodies'[i] = bodies[i]
                   /\ VisitBody(hands_res[1], bodies[i]).flow = "next" ]_vars

\* a tick has just run that passed an Uninitialized right-hand body without a
\* span and initialized the right-hand body after it
C23_Witness ==
    /\ AfterStep
    /\ \E i, j \in bone_query :
         /\ i < j
         /\ bodies[i].hand = "Right" /\ HasNoSpan(i) /\ bodies[i].init = "False"
         /\ bodies[i].collider.axis # NEG_Z
         /\ bodies[j].hand = "Right" /\ bodies[j].init = "True"

\* C24: in every reachable state every body of the spawner has bone tag Palm:
\* the spawner tags all 52 so, and no later operation changes a tag.
C24_SpawnerBodiesTaggedPalm ==
    /\ \A i \in SpawnerBodies : bodies[i].bone = "Palm"
    /\ "spawn_physics_hands" \notin pending => Cardinality(SpawnerBodies) = 52

\* ticks have run, one of which initialized a body, and the 52 bodies of the
\* spawner are there
C24_Witness ==
    /\ AfterStep
    /\ Cardinality(SpawnerBodies) = 52
    /\ bodies[52].bone = "Palm" /\ bodies[52].by = "spawn_physics_hands"
    /\ \E i \in bone_query : bodies[i].init = "True"

\* the table holds entries of both hands: every slot of a bone with a span is
\* a tracked entity of that hand
BothHandsProcessed(res) ==
    \A hand \in HandSet : \A bone \in Bones :
        get_start_and_end_joints(bone, hand) # None =>
            LET slot == (IF hand = "Left" THEN res.left ELSE res.right)[bone]
            IN  slot \in DOMAIN SpawnedEntities /\ SpawnedEntities[slot].hand = hand

\* C25: the table is published once, by spawn_hand_entities at startup, with
\* both hands processed and before spawn_physics_hands runs; no other step,
\* and so no fixed tick, writes it.
C25_TablePublishedOnceAtStartup ==
    [][ /\ hands_res' # hands_res =>
              /\ hands_res = None /\ hands_res' # None
              /\ phase = "Startup"
              /\ "spawn_hand_entities" \in pending /\ "spawn_hand_entities" \notin pending'
              /\ "spawn_physics_hands" \in pending'
              /\ BothHandsProcessed(hands_res'[1])
        /\ ("spawn_physics_hands" \in pending /\ "spawn_physics_hands" \notin pending') =>
              hands_res # None
        /\ phase # "Startup" => hands_res # None ]_vars

\* fixed ticks have run, one of which initialized a body, and the table is
\* the one startup published
C25_Witness ==
    /\ AfterStep
    /\ hands_res # None
    /\ BothHandsProcessed(hands_res[1])
    /\ hands_res[1].right["ThumbMetacarpal"] \in DOMAIN tracked
    /\ \E i \in bone_query : bodies[i].init = "True"

\* the capsule the k-th body of the spawner was spawned with: from
\* (0, -0.0575, 0) to (0, 0.0575, 0), radius half the radius of its joint
SpawnCapsule(k) ==
    Capsule(Vec3(0, -115, 0), Vec3(0, 1, 0), 230 * 230,
            << DefaultHand(Hands[((k - 1) \div 26) + 1])[((k - 1) % 26) + 1].radius, 2 >>)

\* C26: as the program is wired no body of the spawner is ever written by the
\* step: a run of the step leaves each as it was, and after any ticks and any
\* motion of the tracked joints its collider is the capsule it was spawned
\* with and its velocity the zero velocity it was spawned with.
C26_SpawnerBodiesNeverReconciled ==
    [][ \A i \in SpawnerBodies :
          /\ StepRan => bodies'[i] = bodies[i]
          /\ bodies'[i].collider = SpawnCapsule(i)
          /\ bodies'[i].linvel = ZERO
          /\ bodies'[i].angvel = ZeroAngVel ]_vars

\* the tracked joints have moved and a tick has run that initialized a body
\* of bone_query, with the right hand's bodies of the spawner as spawned
C26_Witness ==
    /\ AfterStep
    /\ tracked # SpawnedEntities
    /\ \E i \in bone_query : bodies[i].init = "True"
    /\ Cardinality(SpawnerBodies) = 52
    /\ bodies[29].hand = "Right" /\ bodies[29].by = "spawn_physics_hands"
    /\ bodies[29].collider = SpawnCapsule(29) /\ bodies[29].linvel = ZERO

\* C27: the tick that takes a body from Uninitialized to Initialized writes
\* only the collider (the capsule from the local origin to (0, 0, -length),
\* radius 0.010) and the flag; transform and velocity are unchanged, and no
\* step gives a velocity to a body that is still Uninitialized, so the first
\* velocity command comes no earlier than the tick after.
C27_InitTickWritesColliderAndFlagOnly ==
    [][ \A i \in bone_query :
          bodies[i].init = "False" =>
             /\ bodies'[i].linvel = bodies[i].linvel
             /\ bodies'[i].angvel = bodies[i].angvel
             /\ bodies'[i].translation = bodies[i].translation
             /\ bodies'[i].rotation = bodies[i].rotation
             /\ bodies'[i].init = "True" =>
                   /\ StepRan
                   /\ bodies'[i] =
                        [ bodies[i] EXCEPT
                            !.collider = Capsule(ZERO, NEG_Z, MeasuredLenSq(i), <<RADIUS, 1>>),
                            !.init = "True" ] ]_vars

\* a tick has just initialized a body that is away from its start joint: it
\* has its capsule and the flag, and still the zero velocity it was spawned with
C27_Witness ==
    /\ AfterStep
    /\ \E i \in bone_query :
         /\ bodies[i].init = "True" /\ Eligible(i)
         /\ bodies[i].collider = Capsule(ZERO, NEG_Z, MeasuredLenSq(i), <<RADIUS, 1>>)
         /\ DesiredLinvel(i) # ZERO
         /\ bodies[i].linvel = ZERO /\ bodies[i].angvel = ZeroAngVel

\* C28: the flag is monotone: no step of the program, a tick on a degenerate
\* length included, returns an Initialized body to Uninitialized.
C28_InitFlagMonotone ==
    [][ \A i \in bone_query :
          bodies[i].init = "True" => (i \in DOMAIN bodies' /\ bodies'[i].init = "True") ]_vars

\* a tick has just run on an Initialized body whose bone measured degenerate,
\* after an earlier tick gave the body a velocity
C28_Witness ==
    /\ AfterStep
    /\ \E i \in bone_query :
         /\ bodies[i].init = "True" /\ bodies[i].hand = "Right"
         /\ SpanResolved(i) /\ BelowThreshold(MeasuredLenSq(i))
         /\ bodies[i].linvel # ZERO

\* the transition is the run of the physics schedule of a tick whose
\* reconciliation has already run
PhysicsRanAfterStep ==
    /\ phase = "FixedUpdate"
    /\ pending = {"run_physics_schedule"}
    /\ "run_physics_schedule" \notin pending'

-----------------------------------------------------------------------------
(* Properties of the schedules (checked under SpecSched)                   *)

\* how many of the first k entries of the frame log are `stage`
CountUpTo(stage, k) == Cardinality({ j \in 1..k : frameLog[j] = stage })

\* C5: in every fixed tick the reconciliation step runs before the physics
\* sequence of that tick: the t-th SyncBackend of a frame comes after the
\* t-th update_physics_hands.
C5_ReconcileBeforePhysics ==
    \A k \in DOMAIN frameLog :
        frameLog[k] = "SyncBackend" =>
            CountUpTo("update_physics_hands", k) >= CountUpTo("SyncBackend", k)

\* C6: the physics stages of a frame run as SyncBackend, StepSimulation,
\* Writeback, and every one of them before the frame's TransformPropagate.
C6_PhysicsStagesInOrder ==
    /\ \A k \in DOMAIN frameLog :
         /\ frameLog[k] = "SyncBackend" =>
               /\ k + 2 <= Len(frameLog)
               /\ frameLog[k + 1] = "StepSimulation"
               /\ frameLog[k + 2] = "Writeback"
         /\ frameLog[k] = "StepSimulation" => (k > 1 /\ frameLog[k - 1] = "SyncBackend")
         /\ frameLog[k] = "Writeback" => (k > 2 /\ frameLog[k - 1] = "StepSimulation")
         /\ frameLog[k] = "TransformPropagate" => k = Len(frameLog)
    /\ phase = "Last" =>
         /\ frameLog[Len(frameLog)] = "TransformPropagate"
         /\ CountUpTo("Writeback", Len(frameLog)) = ticks

\* a frame with two fixed ticks has reached the end of PostUpdate
C6_Witness ==
    /\ phase = "Last"
    /\ ticks = 2
    /\ CountUpTo("SyncBackend", Len(frameLog)) = 2
    /\ frameLog[Len(frameLog)] = "TransformPropagate"

-----------------------------------------------------------------------------
(* Properties of the bone topology map (checked under SpecTopo)            *)

NoSpanBones ==
    { "Palm", "Wrist", "ThumbTip", "IndexTip", "MiddleTip", "RingTip", "LittleTip" }

Returned(fn) == call.fn = fn /\ ret # None

\* the canonical index of a bone: its place in the enumeration, from 0
CanonicalIndex(bone) == (CHOOSE i \in DOMAIN PhysicsHandBone : PhysicsHandBone[i] = bone) - 1

\* the finger whose joint run holds a canonical index: thumb 2..5, then five each
FingerOf(i) == IF i < 2 THEN 0 ELSE IF i < 6 THEN 1 ELSE 2 + (i - 6) \div 5

\* the joints of the default pose of `hand` at canonical indices i and i + 1
PairAt(hand, i) == << Inner(DefaultHand(hand), i), Inner(DefaultHand(hand), i + 1) >>

\* C7: for Palm, Wrist and the five Tips, and each hand, bone_span is none.
C7_NoSpanForRootsAndTips ==
    (Returned("get_start_and_end_joints") /\ call.bone \in NoSpanBones) => ret[1] = None

C7_Witness ==
    /\ Returned("get_start_and_end_joints")
    /\ call.bone = "ThumbTip" /\ call.hand = "Right"
    /\ ret[1] = None

\* C8: for each of the other 19 bones and each hand, bone_span is the pair of
\* joints at canonical indices (n, n + 1), n the bone's own index, both in
\* the joint run of one finger.
C8_SpanIsOwnIndexAndNext ==
    (Returned("get_start_and_end_joints") /\ call.bone \notin NoSpanBones) =>
        /\ ret[1] = Some(PairAt(call.hand, CanonicalIndex(call.bone)))
        /\ FingerOf(CanonicalIndex(call.bone)) = FingerOf(CanonicalIndex(call.bone) + 1)
        /\ FingerOf(CanonicalIndex(call.bone)) # 0

C8_Witness ==
    /\ Returned("get_start_and_end_joints")
    /\ call.bone = "IndexProximal" /\ call.hand = "Left"
    /\ ret[1] = Some(PairAt("Left", 7))

\* C9: if bone_span(B) is the joint pair at indices (i, i + 1), then
\* get_physics_bone_from_index(i) is B.
C9_IndexInvertsSpan ==
    (Returned("get_start_and_end_joints") /\ ret[1] # None) =>
        \A i \in 0..24 :
            ret[1][1] = PairAt(call.hand, i) => get_physics_bone_from_index(i) = call.bone

C9_Witness ==
    /\ Returned("get_start_and_end_joints")
    /\ call.bone = "RingDistal" /\ call.hand = "Right"
    /\ ret[1] # None
    /\ ret[1][1] = PairAt("Right", 19)
    /\ get_physics_bone_from_index(19) = "RingDistal"

\* C10: get_physics_bone_from_index returns the bone at the index's place in
\* the canonical order for 0..25, and panics for every index above 25 and
\* for none inside.
C10_BoneAtIndexOrPanic ==
    Returned("get_physics_bone_from_index") =>
        IF call.index <= 25
        THEN ret[1] = PhysicsHandBone[call.index + 1] /\ ret[1] # Panic
        ELSE ret[1] = Panic

C10_Witness ==
    /\ Returned("get_physics_bone_from_index")
    /\ call.index = 26
    /\ ret[1] = Panic

\* the slot of the table named as the joint is: the name whose calibration
\* data for the hand is that joint
SlotOf(hand, joint) == CHOOSE name \in JointNames : get_joint_data(name, hand) = joint

\* C11: get_start_and_end_entities is get_start_and_end_joints resolved through
\* the table: none exactly when the span is none, and otherwise the entries
\* stored under the span's start joint and end joint, in that order.
C11_EntitiesAreSpanThroughTable ==
    Returned("get_start_and_end_entities") =>
        LET span == get_start_and_end_joints(call.bone, call.hand)
        IN  IF span = None THEN ret[1] = None
            ELSE ret[1] = Some(<< call.hand_res[SlotOf(call.hand, span[1][1])],
                                  call.hand_res[SlotOf(call.hand, span[1][2])] >>)

C11_Witness ==
    /\ Returned("get_start_and_end_entities")
    /\ call.bone = "MiddleIntermediate" /\ call.hand = "Left"
    /\ call.hand_res = FullHandResource
    /\ ret[1] = Some(<<FullHandResource["MiddleIntermediate"], FullHandResource["MiddleDistal"]>>)
    /\ FullHandResource["MiddleIntermediate"] # FullHandResource["MiddleDistal"]

\* the canonical index of a joint name: its place in NameToHandJoint, from 0
NameIndex(name) == (CHOOSE i \in DOMAIN NameToHandJoint : NameToHandJoint[i] = name) - 1

\* C30: the two views of the Joint Pose Table agree: for each hand and each
\* of the 26 names get_joint_data returns the joint stored at the name's
\* canonical index in the default pose array of the hand, with the same
\* position, orientation, flags and radius.
C30_PoseByNameIsDefaultPose ==
    Returned("get_joint_data") =>
        ret[1] = Inner(DefaultHand(call.hand), NameIndex(call.bone))

C30_Witness ==
    /\ Returned("get_joint_data")
    /\ call.bone = "RingProximal" /\ call.hand = "Right"
    /\ ret[1] = get_default_right_hand[18]
    /\ ret[1] # get_default_left_hand[18]
    /\ ret[1].position_valid /\ ret[1].orientation_tracked

=============================================================================
